---- MODULE Spec2Model ----
(***************************************************************************)
(* Model of codes/viz.py: read_data, and the two panel routines hist_panel *)
(* and box_plot that lay a frame's columns out on a grid two plots wide    *)
(* and draw one colour from COLORS for each plot.                          *)
(*                                                                         *)
(* A session reads one file with read_data and then calls the plotting     *)
(* functions on the numeric columns of the frame read_data returned.       *)
(* The calls into matplotlib and numpy are modelled by what they accept:   *)
(*   plt.subplots(nrows, ncols)        needs nrows >= 1 and ncols >= 1 and *)
(*                                     returns the axes array squeezed;    *)
(*   fig.add_subplot(rows, cols, num)  needs rows >= 1, cols >= 1 and      *)
(*                                     1 <= num <= rows * cols;            *)
(*   axes[r, c]                        needs a two-dimensional array with  *)
(*                                     r and c inside its shape.           *)
(***************************************************************************)
EXTENDS Integers, Sequences, FiniteSets

\* ------------------------------------------------------------- bounds
\* Most numeric columns of a frame under Spec.
MaxCount == 10
\* Most numeric columns of a frame under SpecData.
MaxDataCols == 4
\* Most rows of a file under SpecData.
MaxRows == 2
\* Number of entries of COLORS (a small palette stands for Set2 + Set3).
PaletteSize == 2

\* ------------------------------------------------------------- state
VARIABLES
    file,       \* the CSV file in external storage: [rows, cols]
    rpc,        \* position inside read_data
    drop_na,    \* read_data's parameter (a local: FALSE outside the call)
    data,       \* the DataFrame read_data builds and returns
    COLORS,     \* the module-level palette list
    op,         \* the plotting function called last
    ppc,        \* its position: idle, loop, done, error
    count,      \* hist_panel's count / box_plot's n_cols (data.shape[1])
    rows,       \* hist_panel's rows / box_plot's fig_rows
    axes,       \* shape of the axes array plt.subplots returned (box_plot)
    i,          \* the loop index
    requested,  \* per iteration begun: the subplot position (hist_panel)
                \* or the axes subscript <<r, c>> (box_plot) asked for
    placed,     \* per plot drawn: the grid cell <<r, c>> it was drawn in
    colors,     \* per plot drawn: the colour drawn for it
    err         \* the exception that ended the call, or "none"

vars == <<file, rpc, drop_na, data, COLORS, op, ppc, count, rows, axes, i,
          requested, placed, colors, err>>

readVars == <<file, rpc, drop_na, data>>
panelVars == <<op, ppc, count, rows, axes, i, requested, placed, colors, err>>

\* ------------------------------------------------------------- read_data
BoolSeqs(n) == UNION {[1..m -> BOOLEAN] : m \in 0..n}

\* Rows of a file: row k keeps its index label k and says whether it holds
\* any missing value.
FileRows(flags) == [k \in 1..Len(flags) |-> [id |-> k, na |-> flags[k]]]

NoData == [rows |-> <<>>, cols |-> 0,
           date_posted |-> "none", datefullyfunded |-> "none"]

\* pd.read_csv: every row and column of the file, the temporal columns still
\* text.
ReadCsvFrame(f) == [rows |-> f.rows, cols |-> f.cols,
                    date_posted |-> "object", datefullyfunded |-> "object"]

HasNa(row) == row.na

\* A mutant of DropNaRows: dropna that removes no row.
DropNaRowsNone(rs) == rs

\* data.dropna(axis=0): the rows without a missing value, in order.
DropNaRows(rs) == SelectSeq(rs, LAMBDA row : ~HasNa(row))

\* pd.to_datetime on a column.
ToDatetime(t) == "datetime64"

ReadCsv ==
    /\ rpc = "start"
    /\ \E d \in BOOLEAN : drop_na' = d
    /\ data' = ReadCsvFrame(file)
    /\ rpc' = "loaded"
    /\ UNCHANGED <<file, COLORS>>
    /\ UNCHANGED panelVars

DropNa ==
    /\ rpc = "loaded"
    /\ data' = IF drop_na THEN [data EXCEPT !.rows = DropNaRows(data.rows)]
                          ELSE data
    /\ rpc' = "dropped"
    /\ UNCHANGED <<file, drop_na, COLORS>>
    /\ UNCHANGED panelVars

ParseDatePosted ==
    /\ rpc = "dropped"
    /\ data' = [data EXCEPT !.date_posted = ToDatetime(data.date_posted)]
    /\ rpc' = "parsed1"
    /\ UNCHANGED <<file, drop_na, COLORS>>
    /\ UNCHANGED panelVars

ParseDateFullyFunded ==
    /\ rpc = "parsed1"
    /\ data' = [data EXCEPT
                   !.datefullyfunded = ToDatetime(data.datefullyfunded)]
    /\ rpc' = "parsed2"
    /\ UNCHANGED <<file, drop_na, COLORS>>
    /\ UNCHANGED panelVars

ReadReturn ==
    /\ rpc = "parsed2"
    /\ rpc' = "returned"
    /\ drop_na' = FALSE
    /\ UNCHANGED <<file, data, COLORS>>
    /\ UNCHANGED panelVars

\* ------------------------------------------------------------- palette
\* COLORS = list(Set2) + list(Set3): PaletteSize distinct colour tokens.
InitialColors == [k \in 1..PaletteSize |-> k]

\* A mutant of Choice: the positional pick for plot index idx.
ChoiceSequential(pal, idx) == {pal[(idx % Len(pal)) + 1]}

\* random.choice(COLORS) for the plot at index idx: any entry of the list,
\* whatever the index.
Choice(pal, idx) == {pal[k] : k \in 1..Len(pal)}

\* A mutant of AfterChoice: a draw that removes the entry it returns.
AfterChoicePop(pal, c) == SelectSeq(pal, LAMBDA x : x # c)

\* random.choice reads the list and leaves it as it is.
AfterChoice(pal, c) == pal

\* ------------------------------------------------------------- layout
fig_cols == 2

\* A mutant of HistRows: rows rounded up.
HistRowsCeil(n) == (n + 1) \div 2

\* hist_panel: rows = count // 2.
HistRows(n) == n \div 2

\* box_plot: fig_rows = n_cols // fig_cols.
BoxRows(n) == n \div fig_cols

\* A mutant of BoxCell: the subscripts swapped.
BoxCellSwapped(idx) == <<idx % fig_cols, idx \div fig_cols>>

\* box_plot: the subscript axes[i // fig_cols, i % fig_cols].
BoxCell(idx) == <<idx \div fig_cols, idx % fig_cols>>

\* hist_panel: the subplot position i + 1.
HistPos(idx) == idx + 1

\* A mutant of HistRange: a loop over the cells of the grid only.
HistRangeGrid(n) == HistRows(n) * 2

\* hist_panel: range(count), the number of iterations of the loop.
HistRange(n) == n

\* plt.subplots(nrows, ncols) accepts only a grid with at least one row and
\* one column.
SubplotsOk(nrows, ncols) == nrows >= 1 /\ ncols >= 1

\* The shape of the axes array plt.subplots returns (squeeze=True): a
\* dimension of length one is dropped.
AxesShape(nrows, ncols) ==
    IF nrows = 1 /\ ncols = 1 THEN <<>>
    ELSE IF nrows = 1 THEN <<ncols>>
    ELSE IF ncols = 1 THEN <<nrows>>
    ELSE <<nrows, ncols>>

\* axes[r, c] on an array of the given shape.
AxesIndexOk(shape, cell) ==
    /\ Len(shape) = 2
    /\ cell[1] >= 0 /\ cell[1] < shape[1]
    /\ cell[2] >= 0 /\ cell[2] < shape[2]

\* fig.add_subplot(nrows, ncols, num) accepts only a position of the grid.
AddSubplotOk(nrows, ncols, num) ==
    /\ nrows >= 1 /\ ncols >= 1
    /\ num >= 1 /\ num <= nrows * ncols

\* The cell of position num, counted row by row from 1.
SubplotCell(ncols, num) == <<(num - 1) \div ncols, (num - 1) % ncols>>

\* ------------------------------------------------------------- calls
CanCall == rpc = "returned" /\ ppc \in {"idle", "done", "error"}

\* hist_panel, lines 115-118: count, rows and the figure.
HistPanelCall ==
    /\ CanCall
    /\ op' = "hist_panel"
    /\ count' = data.cols
    /\ rows' = HistRows(data.cols)
    /\ axes' = <<>>
    /\ i' = 0
    /\ requested' = <<>>
    /\ placed' = <<>>
    /\ colors' = <<>>
    /\ err' = "none"
    /\ ppc' = "loop"
    /\ UNCHANGED <<COLORS>>
    /\ UNCHANGED readVars

\* hist_panel, lines 120-122: one iteration whose subplot is accepted and
\* whose colour is c.
HistDraw(c) ==
    /\ op = "hist_panel" /\ ppc = "loop"
    /\ i < HistRange(count)
    /\ AddSubplotOk(rows, 2, HistPos(i))
    /\ c \in Choice(COLORS, i)
    /\ colors' = Append(colors, c)
    /\ COLORS' = AfterChoice(COLORS, c)
    /\ requested' = Append(requested, HistPos(i))
    /\ placed' = Append(placed, SubplotCell(2, HistPos(i)))
    /\ i' = i + 1
    /\ UNCHANGED <<op, ppc, count, rows, axes, err>>
    /\ UNCHANGED readVars

HistPlace == \E c \in 1..PaletteSize : HistDraw(c)

\* hist_panel, line 121: add_subplot refuses the position.
HistRaise ==
    /\ op = "hist_panel" /\ ppc = "loop"
    /\ i < HistRange(count)
    /\ ~AddSubplotOk(rows, 2, HistPos(i))
    /\ requested' = Append(requested, HistPos(i))
    /\ err' = "ValueError"
    /\ ppc' = "error"
    /\ UNCHANGED <<COLORS, op, count, rows, axes, i, placed, colors>>
    /\ UNCHANGED readVars

\* hist_panel, line 124: the loop is over, the title is set.
HistFinish ==
    /\ op = "hist_panel" /\ ppc = "loop"
    /\ i >= HistRange(count)
    /\ ppc' = "done"
    /\ UNCHANGED <<COLORS, op, count, rows, axes, i, requested, placed,
                   colors, err>>
    /\ UNCHANGED readVars

\* box_plot, lines 161-165: n_cols, fig_rows and the axes array.
BoxPlotCall ==
    /\ CanCall
    /\ op' = "box_plot"
    /\ count' = data.cols
    /\ rows' = BoxRows(data.cols)
    /\ i' = 0
    /\ requested' = <<>>
    /\ placed' = <<>>
    /\ colors' = <<>>
    /\ IF SubplotsOk(BoxRows(data.cols), fig_cols)
          THEN /\ axes' = AxesShape(BoxRows(data.cols), fig_cols)
               /\ err' = "none"
               /\ ppc' = "loop"
          ELSE /\ axes' = <<>>
               /\ err' = "ValueError"
               /\ ppc' = "error"
    /\ UNCHANGED <<COLORS>>
    /\ UNCHANGED readVars

\* box_plot, lines 167-170: one iteration whose axes subscript is valid and
\* whose colour is c.
BoxDraw(c) ==
    /\ op = "box_plot" /\ ppc = "loop"
    /\ i < count
    /\ AxesIndexOk(axes, BoxCell(i))
    /\ c \in Choice(COLORS, i)
    /\ colors' = Append(colors, c)
    /\ COLORS' = AfterChoice(COLORS, c)
    /\ requested' = Append(requested, BoxCell(i))
    /\ placed' = Append(placed, BoxCell(i))
    /\ i' = i + 1
    /\ UNCHANGED <<op, ppc, count, rows, axes, err>>
    /\ UNCHANGED readVars

BoxPlace == \E c \in 1..PaletteSize : BoxDraw(c)

\* box_plot, line 169: the subscript is outside the axes array.
BoxRaise ==
    /\ op = "box_plot" /\ ppc = "loop"
    /\ i < count
    /\ ~AxesIndexOk(axes, BoxCell(i))
    /\ requested' = Append(requested, BoxCell(i))
    /\ err' = "IndexError"
    /\ ppc' = "error"
    /\ UNCHANGED <<COLORS, op, count, rows, axes, i, placed, colors>>
    /\ UNCHANGED readVars

\* box_plot, line 171: the loop is over.
BoxFinish ==
    /\ op = "box_plot" /\ ppc = "loop"
    /\ i >= count
    /\ ppc' = "done"
    /\ UNCHANGED <<COLORS, op, count, rows, axes, i, requested, placed,
                   colors, err>>
    /\ UNCHANGED readVars

\* bar_plot, corr_triangle and hist_plot read the frame (countplot, corr,
\* min / max / quantile) and draw on the axes they are given.
SinglePlot(name) ==
    /\ CanCall
    /\ op' = name
    /\ count' = data.cols
    /\ rows' = 0
    /\ axes' = <<>>
    /\ i' = 0
    /\ requested' = <<>>
    /\ placed' = <<>>
    /\ colors' = <<>>
    /\ err' = "none"
    /\ ppc' = "done"
    /\ UNCHANGED <<COLORS>>
    /\ UNCHANGED readVars

BarPlot == SinglePlot("bar_plot")

CorrTriangle == SinglePlot("corr_triangle")

HistPlot == SinglePlot("hist_plot")

\* ------------------------------------------------------------- spec
InitPanel ==
    /\ COLORS = InitialColors
    /\ op = "none"
    /\ ppc = "idle"
    /\ count = 0
    /\ rows = 0
    /\ axes = <<>>
    /\ i = 0
    /\ requested = <<>>
    /\ placed = <<>>
    /\ colors = <<>>
    /\ err = "none"

InitRead ==
    /\ rpc = "start"
    /\ drop_na = FALSE
    /\ data = NoData

\* A file of one complete row and any number of numeric columns.
Init ==
    /\ \E c \in 0..MaxCount : file = [rows |-> FileRows(<<FALSE>>), cols |-> c]
    /\ InitRead
    /\ InitPanel

\* A file of any rows, complete or not, and a few numeric columns.
InitData ==
    /\ \E flags \in BoolSeqs(MaxRows) : \E c \in 0..MaxDataCols :
          file = [rows |-> FileRows(flags), cols |-> c]
    /\ InitRead
    /\ InitPanel

Next ==
    \/ ReadCsv
    \/ DropNa
    \/ ParseDatePosted
    \/ ParseDateFullyFunded
    \/ ReadReturn
    \/ HistPanelCall
    \/ HistPlace
    \/ HistRaise
    \/ HistFinish
    \/ BoxPlotCall
    \/ BoxPlace
    \/ BoxRaise
    \/ BoxFinish
    \/ BarPlot
    \/ CorrTriangle
    \/ HistPlot

Spec == Init /\ [][Next]_vars

SpecData == InitData /\ [][Next]_vars

\* ------------------------------------------------------------- properties
IsPanel == op \in {"hist_panel", "box_plot"}

Ended == ppc \in {"done", "error"}

\* C1: in hist_panel the row count is the floor of count / 2: twice the rows
\* never exceeds the count, and one more row would.
C1_HistRowsFloor ==
    op = "hist_panel" => /\ rows >= 0
                         /\ rows * 2 <= count
                         /\ count < (rows + 1) * 2

\* hist_panel ran on 10 columns and computed 5 rows.
C1_Witness == op = "hist_panel" /\ ppc = "done" /\ count = 10 /\ rows = 5

\* C2: in box_plot the row count is the ceiling of n_cols / 2, so the grid
\* has a cell for every column.
C2_BoxRowsCeil ==
    op = "box_plot" => /\ rows * 2 >= count
                       /\ (rows - 1) * 2 < count

\* C3: the cell of index idx is (idx div 2, idx mod 2): the column is below
\* 2, row * 2 + column is the index, and from one index to the next the row
\* grows by one exactly when the index reaches a multiple of 2.
C3_CellFormula ==
    /\ op = "box_plot" =>
          \A k \in 1..Len(requested) :
             /\ requested[k][2] \in {0, 1}
             /\ requested[k][1] >= 0
             /\ requested[k][1] * 2 + requested[k][2] = k - 1
             /\ k > 1 => requested[k][1] =
                            requested[k - 1][1]
                               + (IF (k - 1) % 2 = 0 THEN 1 ELSE 0)
    /\ IsPanel =>
          \A k \in 1..Len(placed) :
             /\ placed[k][2] \in {0, 1}
             /\ placed[k][1] * 2 + placed[k][2] = k - 1

\* box_plot drew index 7 in cell (3, 1).
C3_Witness ==
    op = "box_plot" /\ Len(placed) >= 8 /\ placed[8] = <<3, 1>>

\* C4: every position or subscript a panel asks for lies inside the grid it
\* allocated.
C4_GridBounds ==
    /\ op = "hist_panel" =>
          \A k \in 1..Len(requested) :
             requested[k] >= 1 /\ requested[k] <= rows * 2
    /\ op = "box_plot" =>
          \A k \in 1..Len(requested) :
             /\ requested[k][1] >= 0 /\ requested[k][1] < rows
             /\ requested[k][2] >= 0 /\ requested[k][2] < 2

C7_Sequential ==
    IsPanel =>
       \A k \in 1..Len(colors) :
          colors[k] = InitialColors[((k - 1) % PaletteSize) + 1]

\* C7 as amended: the panels have no sequential mode; whenever a plot is
\* about to be drawn, whatever its index, every palette entry can be the
\* colour drawn for it.
C7_AnyEntryAnyIndex ==
    /\ ENABLED HistPlace =>
          \A p \in 1..PaletteSize : ENABLED HistDraw(InitialColors[p])
    /\ ENABLED BoxPlace =>
          \A p \in 1..PaletteSize : ENABLED BoxDraw(InitialColors[p])
    /\ (op = "hist_panel" /\ ppc = "loop" /\ i < count
           /\ AddSubplotOk(rows, 2, i + 1)) => ENABLED HistPlace
    /\ (op = "box_plot" /\ ppc = "loop" /\ i < count /\ i \div 2 < rows
           /\ rows >= 2) => ENABLED BoxPlace

\* Plot index 0 and plot index paletteSize of one panel differ in colour.
C7_Witness ==
    /\ IsPanel
    /\ Len(colors) > PaletteSize
    /\ colors[1] # colors[PaletteSize + 1]

\* C8: every colour drawn is an entry of COLORS, one colour per plot drawn;
\* COLORS is never changed; and a colour already used in the panel can
\* always be drawn again.
C8_RandomFromPalette ==
    /\ COLORS = InitialColors
    /\ Len(colors) = Len(placed)
    /\ \A k \in 1..Len(colors) :
          \E p \in 1..PaletteSize : colors[k] = InitialColors[p]
    /\ ENABLED HistPlace =>
          \A k \in 1..Len(colors) : ENABLED HistDraw(colors[k])
    /\ ENABLED BoxPlace =>
          \A k \in 1..Len(colors) : ENABLED BoxDraw(colors[k])

\* Two plots of one panel carry the same colour.
C8_Witness ==
    /\ IsPanel
    /\ \E j \in 1..Len(colors) : \E k \in 1..Len(colors) :
          j < k /\ colors[j] = colors[k]

\* The rows read_data keeps of the file's rows fs under parameter d: every
\* row when d is false; when d is true exactly the rows without a missing
\* value, each once and in the file's order.
KeptRows(rs, fs, d) ==
    IF ~d THEN rs = fs
    ELSE /\ \A k \in 1..Len(rs) :
               /\ \E m \in 1..Len(fs) : fs[m] = rs[k]
               /\ ~rs[k].na
         /\ \A m \in 1..Len(fs) :
               ~fs[m].na => \E k \in 1..Len(rs) : rs[k] = fs[m]
         /\ \A j \in 1..Len(rs) : \A k \in 1..Len(rs) :
               j < k => rs[j].id < rs[k].id

ReadStages ==
    /\ rpc = "start" => data = NoData
    /\ rpc # "start" => data.cols = file.cols
    /\ rpc = "loaded" =>
          /\ data.rows = file.rows
          /\ data.date_posted = "object"
          /\ data.datefullyfunded = "object"
    /\ rpc = "dropped" =>
          /\ KeptRows(data.rows, file.rows, drop_na)
          /\ data.date_posted = "object"
          /\ data.datefullyfunded = "object"
    /\ rpc = "parsed1" =>
          /\ KeptRows(data.rows, file.rows, drop_na)
          /\ data.date_posted = "datetime64"
          /\ data.datefullyfunded = "object"
    /\ rpc = "parsed2" =>
          /\ KeptRows(data.rows, file.rows, drop_na)
          /\ data.date_posted = "datetime64"
          /\ data.datefullyfunded = "datetime64"
    /\ rpc = "returned" =>
          /\ \/ KeptRows(data.rows, file.rows, TRUE)
             \/ KeptRows(data.rows, file.rows, FALSE)
          /\ data.date_posted = "datetime64"
          /\ data.datefullyfunded = "datetime64"
    /\ rpc # "returned" => op = "none"

ReadOrder ==
    /\ rpc' # rpc =>
          <<rpc, rpc'>> \in {<<"start", "loaded">>, <<"loaded", "dropped">>,
                             <<"dropped", "parsed1">>,
                             <<"parsed1", "parsed2">>,
                             <<"parsed2", "returned">>}
    /\ rpc \in {"parsed2", "returned"} => data' = data

\* C9: read_data loads the file, then drops exactly the rows with a missing
\* value when drop_na is true, then parses date_posted and datefullyfunded,
\* in that order; from the return of read_data on, no step of any plotting
\* function changes the frame.
C9_Lifecycle == [] ReadStages /\ [][ReadOrder]_vars

\* read_data dropped a row and kept one, and a panel has run on the frame.
C9_Witness ==
    /\ rpc = "returned"
    /\ Len(data.rows) >= 1
    /\ Len(data.rows) < Len(file.rows)
    /\ op = "hist_panel" /\ Ended

\* C10: the position hist_panel asks for and the subscript box_plot uses
\* denote the same cell, both compute the same row count, each has visited
\* every index 0 .. count - 1 once and in order when it ends, and no two
\* indices share a cell.
C10_PathsAgree ==
    /\ op = "hist_panel" =>
          /\ rows = BoxRows(count)
          /\ \A k \in 1..Len(requested) :
                /\ requested[k] = k
                /\ SubplotCell(2, requested[k]) = BoxCell(k - 1)
    /\ op = "box_plot" =>
          /\ rows = HistRows(count)
          /\ \A k \in 1..Len(requested) :
                requested[k] = SubplotCell(2, HistPos(k - 1))
    /\ (IsPanel /\ Ended) => Len(requested) = count
    /\ IsPanel =>
          \A j \in 1..Len(placed) : \A k \in 1..Len(placed) :
             j # k => placed[j] # placed[k]

====
